---- MODULE Spec2Model ----
(***************************************************************************)
(* The smart toggle camera server of src/main.py: SmartToggleManager (the  *)
(* lock-guarded switch / stop-all state machine and the capture + encode   *)
(* process pair it supervises) and the protection check the background     *)
(* monitor runs.                                                           *)
(*                                                                         *)
(* Everything runs on one asyncio event loop, so a coroutine runs without  *)
(* interruption from one await that really suspends to the next.  Each     *)
(* action below is one such uninterrupted run: a call until it suspends,   *)
(* or a resumption (the lock is granted, a sleep ends, a blocking wait     *)
(* returns) until the next suspension or the return.  The handlers are     *)
(* written as functions from a record of the fields they touch to the      *)
(* record after the run; Commit writes the record back.                    *)
(*                                                                         *)
(* _safe_stop_current_camera, lines 160-166: proc is a subprocess.Popen,   *)
(* so proc.wait() is an ordinary blocking call.  It returns the exit code  *)
(* (an int) only once the process has exited, and blocks the whole event   *)
(* loop until then.  asyncio.wait_for is then handed that int and raises   *)
(* TypeError, which the except of line 193 turns into "return False".      *)
(* Hence a stop of a non-empty handle table signals the encode process,    *)
(* waits for it without bound, and returns False with the table untouched; *)
(* lines 166-191 (kill, the capture process, clear, purge) never run.      *)
(***************************************************************************)
EXTENDS Integers, Sequences, FiniteSets, TLC

\* Bound: the number of switch and stop requests the API takes over a run.
MaxCalls == 2

\* for i in range(8), line 289
ManifestPolls == 8

\* MAX_CONNECTIONS, line 78
MAX_CONNECTIONS == 12

\* camera_id in [0, 1], line 516
Cameras == {0, 1}

\* active_camera = None, line 85
NoCamera == -1

\* last_switch_time = None, line 91
NoTime == 0

\* Concurrent API requests, the background monitor task (line 1186), and
\* the shutdown handler (line 1188).
Callers == {"c1", "c2"}
Monitor == "mon"
Shutdown == "shutdown"
Tasks == Callers \cup {Monitor, Shutdown}
NoTask == "none"

\* self.processes = {}, line 87
EmptyTable == [n \in {} |-> 0]

\* The readings one monitor tick may see: at and just above each threshold.
CpuSamples == {80, 81}
TempSamples == {70, 71}
MemSamples == {80, 81}

\* What one start attempt may meet before its first await: the stream
\* directory cannot be made or listed (lines 203-207), or one of the two
\* Popen calls raises (lines 252, 261).
LaunchOutcomes == {"ok", "dir_fails", "rpicam_fails", "ffmpeg_fails"}

\* Bound: the websocket clients that arrive over a run of the hub.
MaxArrivals == 2

\* Bound: the clients that go away over a run.
MaxFaults == 1

\* Bound: the broadcasts started over a run.
MaxPublishes == 2

\* The websockets: those registered from the start and those that arrive.
Sockets == 1..(MAX_CONNECTIONS + MaxArrivals)
NoSocket == 0

\* How many observers the hub starts a run with: none, a few, one below
\* the cap, the cap.
HubSizes == {0, 3, MAX_CONNECTIONS - 1, MAX_CONNECTIONS}

\* Bound: the tasks that are inside connection_manager.broadcast at the
\* same time (background_monitor, line 1162; request handlers, lines 526
\* and 542).
MaxPublishers == 1

Publishers == 1..MaxPublishers

VARIABLES
    active_camera,      \* SmartToggleManager.active_camera, NoCamera for None
    camera_state,       \* SmartToggleManager.camera_state
    processes,          \* SmartToggleManager.processes: handle name -> pid
    switch_progress,    \* SmartToggleManager.switch_progress
    switch_message,     \* SmartToggleManager.switch_message, as a tag
    last_switch_time,   \* SmartToggleManager.last_switch_time, NoTime for None
    system_protected,   \* SmartToggleManager.system_protected
    active_connections, \* SmartToggleManager.active_connections
    lock_holder,        \* switch_lock: the task holding it, or NoTask
    lock_waiters,       \* switch_lock: the tasks queued on it, first come first
    os_procs,           \* the OS processes that run or that a handle names, by pid
    issued,             \* requests taken so far (the logical clock)
    pc,                 \* where each task is suspended
    op,                 \* the operation each task is carrying out
    arg,                \* its target camera
    ret,                \* what the operation returned
    poll_i,             \* the i of the manifest loop, line 289
    cleanup_k,          \* the item _cleanup_failed_start is at, line 306
    hist,               \* history: the operation that took the lock last
    connections,        \* ConnectionManager.active_connections, the list
    ws,                 \* where the endpoint task of each websocket is
    bc,                 \* each publisher's broadcast: its loop and its history
    hub_faults,         \* clients gone so far
    hub_publishes,      \* broadcasts started so far
    readings,           \* what the host reads give at one monitor tick
    snapshot,           \* the SystemStatus get_system_status returned
    decision,           \* the should_protect computed from it
    ticks,              \* the ticks the monitor has completed
    toggle_status       \* the get_status() the monitor's tick has taken

vars == <<active_camera, camera_state, processes, switch_progress, switch_message,
          last_switch_time, system_protected, active_connections, lock_holder,
          lock_waiters, os_procs, issued, pc, op, arg, ret,
          poll_i, cleanup_k, hist,
          connections, ws, bc, hub_faults, hub_publishes,
          readings, snapshot, decision, ticks, toggle_status>>

\* The variables of the broadcast hub, of the sampler, and the others.
hub_vars == <<connections, ws, bc, hub_faults, hub_publishes>>
sampler_vars == <<readings, snapshot, decision, ticks>>
toggle_vars == <<active_camera, camera_state, processes, switch_progress,
                 switch_message, last_switch_time, system_protected,
                 lock_holder, lock_waiters, os_procs, issued, pc, op, arg, ret,
                 poll_i, cleanup_k, hist, toggle_status>>

\* The history of one operation: what it is (kind, cam), what it
\* found as it took the lock (cs, ac, pr: whether the table held handles,
\* old: the processes they name, prev: the operation before it), how its teardown (td) and its start (st)
\* went, the processes it launched (new), what it returned (res), and the
\* camera_state of each status snapshot that was handed to
\* ConnectionManager.broadcast on its behalf (pub).
NoHist ==
    [kind |-> "none", cam |-> NoCamera, cs |-> "none",
     ac |-> NoCamera, pr |-> FALSE, old |-> {}, prev |-> "none",
     td |-> "none", st |-> "none", new |-> {}, res |-> "none", pub |-> <<>>]

\* A broadcast that has not started: the loop's position (pos items
\* fetched, cur the one being sent to), its disconnected list, and the
\* history of the publish: the sockets send_text was called on (sent), the
\* sockets registered from its start on (stayed), whether another task
\* unregistered a socket meanwhile (cut); and, of the last broadcast that
\* returned (done), the sockets that stayed registered and were not sent
\* the message exactly once (missed).
NoBroadcast ==
    [pcv |-> "idle", pos |-> 0, cur |-> NoSocket, disc |-> <<>>,
     sent |-> <<>>, stayed |-> {}, cut |-> FALSE, done |-> FALSE,
     missed |-> {}]

\* The hub with the sockets 1..n registered and MaxArrivals more to come.
HubOf(n) ==
    /\ connections = [i \in 1..n |-> i]
    /\ active_connections = n
    /\ ws = [w \in Sockets |-> IF w <= n THEN "open"
                               ELSE IF w <= n + MaxArrivals THEN "new"
                               ELSE "none"]
    /\ bc = [p \in Publishers |-> NoBroadcast]
    /\ hub_faults = 0
    /\ hub_publishes = 0

\* SmartToggleManager.__init__, lines 85-93, and the idle tasks.
\* No SmartToggleStatus: the monitor is between two ticks.
NoStatus == <<>>

InitToggle ==
    /\ active_camera = NoCamera
    /\ camera_state = "stopped"
    /\ processes = EmptyTable
    /\ switch_progress = 0
    /\ switch_message = "idle"
    /\ last_switch_time = NoTime
    /\ system_protected = FALSE
    /\ lock_holder = NoTask
    /\ lock_waiters = <<>>
    /\ os_procs = EmptyTable
    /\ issued = 0
    /\ pc = [t \in Tasks |-> "idle"]
    /\ op = [t \in Callers |-> "none"]
    /\ arg = [t \in Callers |-> NoCamera]
    /\ ret = [t \in Callers |-> "none"]
    /\ poll_i = 0
    /\ cleanup_k = 0
    /\ hist = NoHist
    /\ toggle_status = NoStatus

\* A read that raises (check_output, psutil, open), as a reading.
ReadFails == -1

\* The readings of a host at rest, and no SystemStatus taken yet.
QuietReadings == [cpu |-> 0, temp |-> 0, mem |-> 0, disk |-> 0, uptime |-> 0]
NoSnapshot ==
    [cpu |-> 0, temp |-> 0, mem |-> 0, disk |-> 0, uptime |-> <<>>,
     state |-> "none"]

SamplerOf(r) ==
    /\ readings = r
    /\ snapshot = NoSnapshot
    /\ decision = "none"
    /\ ticks = 0

\* The server after startup: nothing runs and no websocket is connected.
Init == InitToggle /\ HubOf(0) /\ SamplerOf(QuietReadings)

----------------------------------------------------------------------------
\* The record a handler works on: the fields of the manager and of the
\* operating system it touches, and the task's own position and result.
Cur(t) ==
    [ac |-> active_camera, cs |-> camera_state, pr |-> processes,
     sp |-> switch_progress, sm |-> switch_message, lt |-> last_switch_time,
     prot |-> system_protected, os |-> os_procs, now |-> issued,
     pi |-> poll_i, ck |-> cleanup_k, pcv |-> pc[t], rv |-> "none",
     held |-> TRUE, td |-> hist.td, st |-> hist.st, new |-> hist.new,
     pub |-> hist.pub]

IsAlive(os, pid) == pid \in DOMAIN os /\ os[pid].alive

Killed(os, pid) == [os EXCEPT ![pid].alive = FALSE]

\* The pid the operating system hands out next: the lowest one not in use.
FreshPid(os) ==
    CHOOSE p \in 1..(Cardinality(DOMAIN os) + 1) :
        p \notin DOMAIN os /\ \A q \in 1..(p - 1) : q \in DOMAIN os

\* os without the processes that have exited and that no handle of the
\* table pr names any more: nothing can tell them from absent ones.
Reaped(os, pr) ==
    LET keep == {p \in DOMAIN os : os[p].alive \/ \E k \in DOMAIN pr : pr[k] = p}
    IN  [p \in keep |-> os[p]]

\* Finish for a lock that stays taken when the coroutine returns.
FinishHoldingLock(s, r) ==
    [s EXCEPT !.pcv = "done", !.rv = r, !.pi = 0, !.ck = 0]

\* The end of "async with self.switch_lock": the lock is released as the
\* coroutine returns r.
Finish(s, r) ==
    [s EXCEPT !.pcv = "done", !.rv = r, !.held = FALSE, !.pi = 0, !.ck = 0]

\* The endpoints, lines 525-530 and 541-545: when the operation returned
\* True the handler goes straight on to connection_manager.broadcast with
\* get_status() as it is then; when it returned False it raises the
\* HTTPException and nothing is broadcast.  Nothing is broadcast from
\* inside smart_switch_camera or stop_all_cameras.
Published(s) ==
    [s EXCEPT !.pub = Append(@, s.cs)]

----------------------------------------------------------------------------
\* SwitchSucceeded without the assignments of lines 134 and 136.
SwitchSucceededNoProgress(s, cam) ==
    Published(Finish([s EXCEPT !.ac = cam, !.cs = "running",
                               !.sm = "activated", !.st = "ok"], "true"))

\* SwitchSucceeded without the assignment of line 132.
SwitchSucceededKeepsActive(s, cam) ==
    [s EXCEPT !.cs = "running", !.sp = 100, !.sm = "activated", !.lt = s.now,
              !.st = "ok", !.pcv = "done", !.rv = "true", !.held = FALSE,
              !.pi = 0, !.ck = 0]

\* smart_switch_camera, lines 131-139: the start succeeded.
SwitchSucceeded(s, cam) ==
    Published(Finish([s EXCEPT !.ac = cam, !.cs = "running", !.sp = 100,
                               !.sm = "activated", !.lt = s.now, !.st = "ok"],
                     "true"))

\* SwitchStartFailed for a switch that falls back to Stopped.
SwitchStartFailedStopped(s) ==
    Finish([s EXCEPT !.cs = "stopped", !.sm = "start_failed", !.st = "fail"],
           "false")

\* smart_switch_camera, lines 140-143: the start failed.  active_camera is
\* not assigned on this path.
SwitchStartFailed(s) ==
    Finish([s EXCEPT !.cs = "error", !.sm = "start_failed", !.st = "fail"], "false")

\* SwitchStopFailed without the message of line 119.
SwitchStopFailedSilent(s) ==
    Finish([s EXCEPT !.cs = "error"], "false")

\* smart_switch_camera, lines 117-120: the teardown failed.  active_camera
\* is not assigned on this path either.
SwitchStopFailed(s) ==
    Finish([s EXCEPT !.cs = "error", !.sm = "stop_failed"], "false")

\* items() of the dict built at lines 271-274, in insertion order.
CleanupOrder == <<"rpicam", "ffmpeg">>

\* Whether item j of the table is a process that has not exited
\* (proc.poll() is None, line 308).
CleanupLive(s, j) ==
    /\ j <= Len(CleanupOrder)
    /\ CleanupOrder[j] \in DOMAIN s.pr
    /\ IsAlive(s.os, s.pr[CleanupOrder[j]])

\* _cleanup_failed_start from item i on, lines 306-316, and the "return
\* False" of line 302 that follows it.  It walks self.processes, the table
\* as it is when the exception is caught: a process launched at line 252
\* is not in it before line 271 has run.  A live process is sent SIGTERM
\* and the coroutine sleeps a second (line 310); with none left the table
\* is cleared.
CleanupFrom(s, i) ==
    IF i <= 1 /\ CleanupLive(s, 1)
    THEN [s EXCEPT !.pcv = "cleanup_sleep", !.ck = 1]
    ELSE IF i <= 2 /\ CleanupLive(s, 2)
    THEN [s EXCEPT !.pcv = "cleanup_sleep", !.ck = 2]
    ELSE SwitchStartFailed([s EXCEPT !.pr = EmptyTable])

\* _cleanup_failed_start after the sleep of line 310: kill the process if
\* it is still there (lines 311-312), then go on with the next item.
CleanupAfterSleep(s) ==
    LET pid == s.pr[CleanupOrder[s.ck]]
        os2 == IF IsAlive(s.os, pid) THEN Killed(s.os, pid) ELSE s.os
    IN  CleanupFrom([s EXCEPT !.os = os2], s.ck + 1)

\* The handle table of lines 271-274.
NewTable(rp, fp) ==
    [k \in {"rpicam", "ffmpeg"} |-> IF k = "rpicam" THEN rp ELSE fp]

\* A process just launched; stop_sig: the signal _safe_stop_current_camera
\* has sent it, if any.
NewProc(kind) ==
    [kind |-> kind, alive |-> TRUE, stop_sig |-> "none"]

\* _safe_start_camera up to its first await, lines 199-279.  The stream
\* directory is purged (so what an earlier pipeline left there plays no
\* part), the two processes are launched, then the table is assigned.
\* Whatever raises goes to the except of line 299 with switch_progress as
\* it was then: 50 for the stream directory (mkdir and glob come before
\* line 213), 70 for the first Popen, 80 for the second.
SafeStartCamera(s, cam, outcome) ==
    LET s0 == [s EXCEPT !.cs = "starting"]
        s1 == [s0 EXCEPT !.sp = 70]
        rp == FreshPid(s1.os)
        s2 == [s1 EXCEPT !.os = @ @@ (rp :> NewProc("rpicam")),
                         !.new = {rp}, !.sp = 80]
        fp == FreshPid(s2.os)
        s3 == [s2 EXCEPT !.os = @ @@ (fp :> NewProc("ffmpeg")),
                         !.new = {rp, fp}, !.pr = NewTable(rp, fp),
                         !.sp = 90, !.pcv = "start_settle"]
    IN  IF outcome = "dir_fails" THEN CleanupFrom(s0, 1)
        ELSE IF outcome = "rpicam_fails" THEN CleanupFrom(s1, 1)
        ELSE IF outcome = "ffmpeg_fails" THEN CleanupFrom(s2, 1)
        ELSE s3

\* The manifest loop at iteration i, lines 288-297; found: whether the
\* encode process has written index.m3u8 by now.
ManifestLoop(s, cam, i, found) ==
    IF found
    THEN SwitchSucceeded(s, cam)
    ELSE [s EXCEPT !.pcv = "start_poll", !.pi = i]

\* _safe_start_camera after the sleep of line 279, lines 281-292.
AfterSettle(s, cam, found) ==
    IF ~IsAlive(s.os, s.pr["rpicam"]) THEN CleanupFrom(s, 1)
    ELSE IF ~IsAlive(s.os, s.pr["ffmpeg"]) THEN CleanupFrom(s, 1)
    ELSE ManifestLoop(s, cam, 0, found)

\* _safe_start_camera after the sleep of line 292: the next iteration, or
\* the else of the for loop (line 294) after the last one.
AfterPollSleep(s, cam, found) ==
    IF s.pi + 1 < ManifestPolls
    THEN ManifestLoop(s, cam, s.pi + 1, found)
    ELSE CleanupFrom(s, 1)

\* smart_switch_camera, lines 125-129.
SwitchStartPhase(s, cam, outcome) ==
    SafeStartCamera([s EXCEPT !.sm = "starting", !.sp = 50], cam, outcome)

\* The process _safe_stop_current_camera is blocked on.
WaitKey(pr) ==
    IF "ffmpeg" \in DOMAIN pr THEN "ffmpeg" ELSE "rpicam"

\* Popen.send_signal(SIGTERM), lines 162 and 171: a process that has
\* already exited is sent nothing.
Signalled(os, pid) ==
    IF IsAlive(os, pid) THEN [os EXCEPT ![pid].stop_sig = "term"] ELSE os

\* SafeStopSignal for a stop that turns to the capture process first.
SafeStopSignalCaptureFirst(s) ==
    [s EXCEPT !.cs = "stopping", !.pcv = "stop_wait",
              !.os = Signalled(s.os, s.pr["rpicam"])]

\* _safe_stop_current_camera up to the blocking proc.wait(), lines 156-164
\* (169-173 for a table without an encode process).
SafeStopSignal(s) ==
    [s EXCEPT !.cs = "stopping", !.pcv = "stop_wait",
              !.os = Signalled(s.os, s.pr[WaitKey(s.pr)])]

\* SmartSwitchCamera for a switch that goes straight to the start of its
\* target, whatever is active.
SmartSwitchCameraNoTeardown(s, cam, outcome) ==
    SwitchStartPhase([s EXCEPT !.cs = "switching", !.sp = 0,
                               !.sm = "switching", !.td = "skipped"],
                     cam, outcome)

\* smart_switch_camera up to its first suspension, lines 107-129.
SmartSwitchCamera(s, cam, outcome) ==
    LET s0 == [s EXCEPT !.cs = "switching", !.sp = 0, !.sm = "switching"]
        s1 == [s0 EXCEPT !.sm = "cleaning"]
    IN  IF s0.ac # NoCamera
        THEN IF DOMAIN s1.pr = {}
             THEN [s1 EXCEPT !.td = "noop", !.sp = 40, !.pcv = "switch_pause"]
             ELSE SafeStopSignal(s1)
        ELSE SwitchStartPhase([s0 EXCEPT !.td = "skipped"], cam, outcome)

\* ProtectionActivated without the assignment of line 358.
ProtectionNotRecorded(s) ==
    [s EXCEPT !.sm = "protected", !.pcv = "idle"]

\* check_system_protection, lines 358-359, after stop_all_cameras returned;
\* the monitor then sleeps until its next tick (line 1172).
ProtectionActivated(s) ==
    [s EXCEPT !.prot = TRUE, !.sm = "protected", !.pcv = "idle"]

\* StopAllFinish for a stop that leaves the state machine as it is when
\* _safe_stop_current_camera failed.
StopAllFinishKeepsFailed(s, t, success) ==
    LET r == IF success = "true"
             THEN Finish([s EXCEPT !.ac = NoCamera, !.cs = "stopped",
                                   !.sp = 0, !.sm = "all_stopped"], success)
             ELSE Finish(s, success)
    IN  IF t = Monitor THEN ProtectionActivated(r)
        ELSE IF t \in Callers /\ success = "true" THEN Published(r)
        ELSE r

\* stop_all_cameras, lines 322-326, once _safe_stop_current_camera has
\* returned success; the monitor's call goes on in check_system_protection,
\* the endpoint's in its broadcast, and the shutdown handler's only logs.
StopAllFinish(s, t, success) ==
    LET r == Finish([s EXCEPT !.ac = NoCamera, !.cs = "stopped", !.sp = 0,
                              !.sm = "all_stopped"], success)
    IN  IF t = Monitor THEN ProtectionActivated(r)
        ELSE IF t \in Callers /\ success = "true" THEN Published(r)
        ELSE r

\* stop_all_cameras up to its first suspension, lines 320-326 with 153-164.
StopAllCameras(s, t) ==
    IF DOMAIN s.pr = {}
    THEN StopAllFinish([s EXCEPT !.td = "noop"], t, "true")
    ELSE SafeStopSignal(s)

\* _safe_stop_current_camera once proc.wait() has returned: wait_for
\* raises TypeError, lines 164 and 193-195, and the caller goes on.
SafeStopAfterWait(s, t, kind) ==
    LET s1 == [s EXCEPT !.td = "fail"]
    IN  IF kind = "switch" THEN SwitchStopFailed(s1)
        ELSE StopAllFinish(s1, t, "false")

\* A body that turns every operation away while the state is Error.
BodyRefusedInError(s, t, kind, cam, outcome) ==
    IF s.cs = "error" THEN Finish(s, "false")
    ELSE IF kind = "switch" THEN SmartSwitchCamera(s, cam, outcome)
    ELSE StopAllCameras(s, t)

\* The body of an operation from the moment it holds the lock.
Body(s, t, kind, cam, outcome) ==
    IF kind = "switch" THEN SmartSwitchCamera(s, cam, outcome)
    ELSE StopAllCameras(s, t)

\* A decision that asks for all four comparisons at once.
ShouldProtectJointly(cpu, temp, mem, conns) ==
    /\ cpu > 80
    /\ temp > 70
    /\ mem > 80
    /\ conns > MAX_CONNECTIONS

\* check_system_protection, lines 348-353.
ShouldProtect(cpu, temp, mem, conns) ==
    \/ cpu > 80
    \/ temp > 70
    \/ mem > 80
    \/ conns > MAX_CONNECTIONS

----------------------------------------------------------------------------
\* The server lets requests in until it is told to go down: uvicorn.run
\* (line 1202) closes its listeners before it runs the shutdown handler.
Serving == pc[Shutdown] = "idle"

\* A blocking call (proc.wait(), line 164) keeps the event loop from running
\* any other task until it returns.  The return of the shutdown handler
\* (line 1192) does not stop the loop: nothing cancels the monitor task of
\* line 1186, which goes on with its ticks.
LoopFree == \A t \in Tasks : pc[t] # "stop_wait"

\* CanAcquire for a lock that is never found taken.
CanAcquireAnyway(t) == pc[t] = "idle"

\* asyncio.Lock.acquire (line 105, line 320): taken at once only when the
\* lock is free and nobody is queued for it.
CanAcquire(t) == lock_holder = NoTask /\ lock_waiters = <<>>

\* The operation task t is carrying out, and its target: the monitor and
\* the shutdown handler only ever call stop_all_cameras (lines 357, 1191).
OpOf(t) == IF t \in Callers THEN op[t] ELSE "stop"
ArgOf(t) == IF t \in Callers THEN arg[t] ELSE NoCamera

\* get_status, lines 328-337: the six fields as they are now.
SmartToggleStatus ==
    [active_camera |-> active_camera, camera_state |-> camera_state,
     switch_progress |-> switch_progress, switch_message |-> switch_message,
     last_switch_time |-> last_switch_time,
     system_protected |-> system_protected]

\* background_monitor, line 1156: the get_status() of the tick that task t
\* is in.  The monitor takes it as its tick begins, before
\* check_system_protection, and keeps it until the broadcast of line 1162.
TickStatus(t) ==
    IF t = Monitor /\ pc[Monitor] = "idle" THEN SmartToggleStatus
    ELSE toggle_status

\* background_monitor, lines 1162-1167: the "toggle" of the
\* periodic_update message a tick hands to ConnectionManager.broadcast as
\* its check_system_protection returns, in the step that ends the check.
PeriodicUpdate == TickStatus(Monitor)

\* Writes back the record s that task t's run produced.  When the run ends
\* the monitor's check_system_protection, the tick sends its
\* periodic_update and sleeps (lines 1162-1172).
Commit(t, s) ==
    /\ toggle_status' =
           IF t = Monitor /\ s.pcv = "idle" THEN NoStatus ELSE TickStatus(t)
    /\ active_camera' = s.ac
    /\ camera_state' = s.cs
    /\ processes' = s.pr
    /\ switch_progress' = s.sp
    /\ switch_message' = s.sm
    /\ last_switch_time' = s.lt
    /\ system_protected' = s.prot
    /\ os_procs' = Reaped(s.os, s.pr)
    /\ poll_i' = s.pi
    /\ cleanup_k' = s.ck
    /\ lock_holder' = IF s.held THEN t ELSE NoTask
    /\ pc' = [pc EXCEPT ![t] = s.pcv]
    /\ ret' = IF t \in Callers THEN [ret EXCEPT ![t] = s.rv] ELSE ret
    /\ UNCHANGED <<active_connections, hub_vars>>

\* The history of the operation task t starts now.
Found(kind, cam) ==
    [kind |-> kind, cam |-> cam, cs |-> camera_state,
     ac |-> active_camera, pr |-> DOMAIN processes # {},
     old |-> {processes[k] : k \in DOMAIN processes},
     prev |-> hist.kind,
     td |-> "none", st |-> "none", new |-> {}, res |-> "none", pub |-> <<>>]

\* Task t takes the free lock and runs the operation up to its first
\* suspension.
Enter(t, kind, cam) ==
    \E outcome \in LaunchOutcomes :
        LET s0 == [Cur(t) EXCEPT !.td = "none", !.st = "none", !.new = {},
                                 !.pub = <<>>]
            s == Body(s0, t, kind, cam, outcome)
        IN  /\ Commit(t, s)
            /\ hist' = [Found(kind, cam) EXCEPT !.td = s.td, !.st = s.st,
                                                   !.new = s.new, !.res = s.rv,
                                                   !.pub = s.pub]

\* Task t, holding the lock, runs on from where it was suspended.
Resume(t, s) ==
    /\ Commit(t, s)
    /\ hist' = [hist EXCEPT !.td = s.td, !.st = s.st, !.new = s.new,
                            !.res = s.rv, !.pub = s.pub]

\* Task t queues on the lock.
Queue(t) ==
    /\ lock_waiters' = Append(lock_waiters, t)
    /\ toggle_status' = TickStatus(t)
    /\ pc' = [pc EXCEPT ![t] = "wait_lock"]
    /\ UNCHANGED <<active_camera, camera_state, processes, switch_progress,
                   switch_message, last_switch_time, system_protected,
                   active_connections, lock_holder, os_procs,
                   ret, poll_i, cleanup_k, hist, hub_vars>>

\* SwitchRejected for a 503 path that marks the state machine Error.
SwitchRejectedMarksError(t, cam) ==
    /\ t \in Callers /\ pc[t] = "idle" /\ LoopFree /\ Serving
    /\ system_protected
    /\ pc' = [pc EXCEPT ![t] = "done"]
    /\ op' = [op EXCEPT ![t] = "switch"]
    /\ arg' = [arg EXCEPT ![t] = cam]
    /\ ret' = [ret EXCEPT ![t] = "rejected"]
    /\ camera_state' = "error"
    /\ UNCHANGED <<active_camera, processes, switch_progress,
                   switch_message, last_switch_time, system_protected,
                   active_connections, lock_holder, lock_waiters, os_procs,
                   issued, poll_i, cleanup_k, hist, hub_vars, sampler_vars,
                   toggle_status>>

\* POST /api/camera/{id}/switch while protected, lines 519-520: HTTP 503.
SwitchRejected(t, cam) ==
    /\ t \in Callers /\ pc[t] = "idle" /\ LoopFree /\ Serving
    /\ system_protected
    /\ pc' = [pc EXCEPT ![t] = "done"]
    /\ op' = [op EXCEPT ![t] = "switch"]
    /\ arg' = [arg EXCEPT ![t] = cam]
    /\ ret' = [ret EXCEPT ![t] = "rejected"]
    /\ UNCHANGED <<active_camera, camera_state, processes, switch_progress,
                   switch_message, last_switch_time, system_protected,
                   active_connections, lock_holder, lock_waiters, os_procs,
                   issued, poll_i, cleanup_k, hist, hub_vars, sampler_vars,
                   toggle_status>>

\* POST /api/camera/{id}/switch, lines 513-523, into smart_switch_camera.
CallSwitch(t, cam) ==
    /\ t \in Callers /\ pc[t] = "idle" /\ LoopFree /\ Serving
    /\ ~system_protected
    /\ issued < MaxCalls
    /\ issued' = issued + 1
    /\ op' = [op EXCEPT ![t] = "switch"]
    /\ arg' = [arg EXCEPT ![t] = cam]
    /\ UNCHANGED sampler_vars
    /\ IF CanAcquire(t)
       THEN lock_waiters' = lock_waiters /\ Enter(t, "switch", cam)
       ELSE Queue(t)

\* POST /api/camera/stop, lines 536-539, into stop_all_cameras.
CallStop(t) ==
    /\ t \in Callers /\ pc[t] = "idle" /\ LoopFree /\ Serving
    /\ issued < MaxCalls
    /\ issued' = issued + 1
    /\ op' = [op EXCEPT ![t] = "stop"]
    /\ arg' = [arg EXCEPT ![t] = NoCamera]
    /\ UNCHANGED sampler_vars
    /\ IF CanAcquire(t)
       THEN lock_waiters' = lock_waiters /\ Enter(t, "stop", NoCamera)
       ELSE Queue(t)

\* shutdown_event, lines 1188-1192: the server is going down and calls
\* stop_all_cameras, once; nothing is broadcast and nobody is answered.
\* uvicorn.run (line 1202) runs the shutdown handlers after the request
\* handlers in flight have returned; the monitor task is still there.
ShutdownEvent ==
    /\ pc[Shutdown] = "idle" /\ LoopFree
    /\ \A t \in Callers : pc[t] \in {"idle", "done"}
    /\ UNCHANGED <<op, arg, issued, sampler_vars>>
    /\ IF CanAcquire(Shutdown)
       THEN lock_waiters' = lock_waiters /\ Enter(Shutdown, "stop", NoCamera)
       ELSE Queue(Shutdown)

\* What check_system_protection may compute from one tick's readings.
Verdicts ==
    {ShouldProtect(cpu, temp, mem, active_connections) :
        cpu \in CpuSamples, temp \in TempSamples, mem \in MemSamples}

\* check_system_protection from line 355 on, with the should_protect it
\* has computed.  True and not yet protected: it awaits stop_all_cameras
\* (line 357); otherwise it leaves the cameras alone and, when protection
\* was on and is no longer asked for, clears the flag (lines 361-365).
CheckSystemProtection(should_protect) ==
    /\ pc[Monitor] = "idle" /\ LoopFree
    /\ IF should_protect /\ ~system_protected
       THEN /\ UNCHANGED <<op, arg, issued>>
            /\ IF CanAcquire(Monitor)
               THEN /\ lock_waiters' = lock_waiters
                    /\ Enter(Monitor, "stop", NoCamera)
               ELSE Queue(Monitor)
       ELSE /\ system_protected' =
                   IF ~should_protect /\ system_protected THEN FALSE
                   ELSE system_protected
            /\ UNCHANGED <<active_camera, camera_state, processes,
                           switch_progress, switch_message, last_switch_time,
                           active_connections, lock_holder, lock_waiters,
                           os_procs, issued, pc, op, arg, ret, poll_i,
                           cleanup_k, hist, hub_vars, toggle_status>>

\* One tick of background_monitor that activates protection: lines
\* 1155-1159 and 348-357, into stop_all_cameras.
MonitorProtect(should_protect) ==
    /\ should_protect /\ ~system_protected
    /\ CheckSystemProtection(should_protect)
    /\ UNCHANGED sampler_vars

\* MonitorQuiet for a deactivation that also empties the handle table.
MonitorQuietClearsTable(should_protect) ==
    /\ pc[Monitor] = "idle" /\ LoopFree
    /\ ~(should_protect /\ ~system_protected)
    /\ system_protected' =
           IF ~should_protect /\ system_protected THEN FALSE
           ELSE system_protected
    /\ processes' =
           IF ~should_protect /\ system_protected THEN EmptyTable
           ELSE processes
    /\ UNCHANGED <<active_camera, camera_state, switch_progress,
                   switch_message, last_switch_time, active_connections,
                   lock_holder, lock_waiters, os_procs,
                   issued, pc, op, arg, ret, poll_i, cleanup_k, hist,
                   hub_vars, sampler_vars, toggle_status>>

\* One tick that leaves the cameras alone: lines 355 and 361-365.
MonitorQuiet(should_protect) ==
    /\ ~(should_protect /\ ~system_protected)
    /\ CheckSystemProtection(should_protect)
    /\ UNCHANGED sampler_vars

\* The lock is free and t is first in line: it takes it and runs on.
LockGranted(t) ==
    /\ pc[t] = "wait_lock" /\ LoopFree
    /\ lock_holder = NoTask
    /\ lock_waiters # <<>> /\ Head(lock_waiters) = t
    /\ lock_waiters' = Tail(lock_waiters)
    /\ Enter(t, OpOf(t), ArgOf(t))
    /\ UNCHANGED <<op, arg, issued, sampler_vars>>

\* Where a task resumes when its asyncio.sleep ends.
AfterSleep(s, t, outcome, found) ==
    CASE pc[t] = "switch_pause" -> SwitchStartPhase(s, ArgOf(t), outcome)
      [] pc[t] = "start_settle" -> AfterSettle(s, ArgOf(t), found)
      [] pc[t] = "start_poll" -> AfterPollSleep(s, ArgOf(t), found)
      [] pc[t] = "cleanup_sleep" -> CleanupAfterSleep(s)

\* An asyncio.sleep of task t ends (lines 123, 279, 292, 310).
SleepReturns(t) ==
    /\ pc[t] \in {"switch_pause", "start_settle", "start_poll", "cleanup_sleep"}
    /\ LoopFree
    /\ \E outcome \in LaunchOutcomes, found \in BOOLEAN :
           Resume(t, AfterSleep(Cur(t), t, outcome, found))
    /\ UNCHANGED <<lock_waiters, op, arg, issued, sampler_vars>>

\* proc.wait() returns: the process the stop is blocked on has exited.
WaitReturns(t) ==
    /\ pc[t] = "stop_wait"
    /\ ~IsAlive(os_procs, processes[WaitKey(processes)])
    /\ Resume(t, SafeStopAfterWait(Cur(t), t, OpOf(t)))
    /\ UNCHANGED <<lock_waiters, op, arg, issued, sampler_vars>>

\* The caller has its answer; the task is over.
Return(t) ==
    /\ pc[t] = "done" /\ LoopFree
    /\ pc' = [pc EXCEPT ![t] = "idle"]
    /\ op' = [op EXCEPT ![t] = "none"]
    /\ arg' = [arg EXCEPT ![t] = NoCamera]
    /\ ret' = [ret EXCEPT ![t] = "none"]
    /\ UNCHANGED <<active_camera, camera_state, processes, switch_progress,
                   switch_message, last_switch_time, system_protected,
                   active_connections, lock_holder, lock_waiters, os_procs,
                   issued, poll_i, cleanup_k, hist, hub_vars, sampler_vars,
                   toggle_status>>

\* The environment: a process exits, on a signal or on its own.
ProcExit(pid) ==
    /\ pid \in DOMAIN os_procs
    /\ IsAlive(os_procs, pid)
    /\ os_procs' = Reaped(Killed(os_procs, pid), processes)
    /\ UNCHANGED <<active_camera, camera_state, processes, switch_progress,
                   switch_message, last_switch_time, system_protected,
                   active_connections, lock_holder, lock_waiters,
                   issued, pc, op, arg, ret, poll_i, cleanup_k, hist,
                   hub_vars, sampler_vars, toggle_status>>

\* GET /api/status, lines 550-557: the handler runs when the event loop
\* runs it, reads the fields without taking switch_lock and assigns none.
GetStatus ==
    /\ LoopFree
    /\ UNCHANGED vars

\* The camera ids a client may ask a stream URL for: the endpoint of
\* line 559 takes any integer.
StreamIds == {0, 1, 2}

NoUrl == <<>>

\* get_stream_url for a manager that looks at active_camera only.
GetStreamUrlOfActive(camera_id) ==
    IF active_camera = camera_id
    THEN <<"stream", camera_id, "index.m3u8">>
    ELSE NoUrl

\* get_stream_url, lines 339-344: "/stream/cam{camera_id}/index.m3u8".
GetStreamUrl(camera_id) ==
    IF active_camera = camera_id /\ camera_state = "running"
    THEN <<"stream", camera_id, "index.m3u8">>
    ELSE NoUrl

\* GET /api/stream/{camera_id}/url, lines 559-566: reads, assigns nothing.
StreamUrlRequest(camera_id) ==
    /\ LoopFree
    /\ GetStreamUrl(camera_id) \in {NoUrl, <<"stream", camera_id, "index.m3u8">>}
    /\ UNCHANGED vars

Next ==
    \/ \E t \in Callers, cam \in Cameras : SwitchRejected(t, cam)
    \/ GetStatus
    \/ \E id \in StreamIds : StreamUrlRequest(id)
    \/ \E t \in Callers, cam \in Cameras : CallSwitch(t, cam)
    \/ \E t \in Callers : CallStop(t)
    \/ ShutdownEvent
    \/ \E v \in Verdicts : MonitorProtect(v)
    \/ \E v \in Verdicts : MonitorQuiet(v)
    \/ \E t \in Tasks : LockGranted(t)
    \/ \E t \in Tasks : SleepReturns(t)
    \/ \E t \in Tasks : WaitReturns(t)
    \/ \E t \in Callers : Return(t)
    \/ \E pid \in DOMAIN os_procs : ProcExit(pid)

Spec == Init /\ [][Next]_vars

\* The event loop runs every task that is ready: a task that can take the
\* lock, one whose sleep has ended, one whose blocking wait can return, and
\* a handler with its answer all get their turn.  Nothing makes a process
\* exit, a request arrive or the monitor's readings change.
Fairness ==
    \A t \in Tasks :
        /\ WF_vars(LockGranted(t))
        /\ WF_vars(SleepReturns(t))
        /\ WF_vars(WaitReturns(t))
        /\ WF_vars(t \in Callers /\ Return(t))

FairSpec == Spec /\ Fairness

----------------------------------------------------------------------------
\* ConnectionManager and websocket_endpoint, lines 438-471 and 569-592.

Range(seq) == {seq[i] : i \in 1..Len(seq)}

Count(seq, w) == Cardinality({i \in 1..Len(seq) : seq[i] = w})

\* list.remove for each member of gone that is in the list.
Without(seq, gone) == SelectSeq(seq, LAMBDA x : x \notin gone)

\* AtCap for a cap that admits one observer more.
AboveCap(n) == n > MAX_CONNECTIONS

\* connect, line 443.
AtCap(n) == n >= MAX_CONNECTIONS

\* The socket object of the next client: one that was not used before.
NextSocket ==
    CHOOSE w \in Sockets :
        ws[w] = "new" /\ \A v \in Sockets : v < w => ws[v] # "new"

\* disconnect, lines 453-456, of every socket of gone: the list without
\* them, and the manager's count, which is assigned only when a socket was
\* found in the list.
Removed(gone) ==
    /\ connections' = Without(connections, gone)
    /\ active_connections' =
           IF Range(connections) \cap gone # {}
           THEN Len(Without(connections, gone))
           ELSE active_connections

\* What a removal of the sockets of gone does to the history of the
\* broadcasts that are in their loop: those sockets did not stay registered.
Witnessed(b, gone) ==
    [p \in Publishers |->
        IF b[p].pcv = "sending" /\ Range(connections) \cap gone # {}
        THEN [b[p] EXCEPT !.stayed = @ \ gone, !.cut = TRUE]
        ELSE b[p]]

\* websocket_endpoint into connect, lines 571 and 443-447: over the cap
\* the socket is closed and the endpoint returns; else the coroutine is
\* suspended in websocket.accept().
Connect(w) ==
    /\ ws[w] = "new" /\ w = NextSocket
    /\ ws' = [ws EXCEPT ![w] = IF AtCap(Len(connections)) THEN "rejected"
                                ELSE "accepting"]
    /\ UNCHANGED <<connections, active_connections, bc, hub_faults,
                   hub_publishes, toggle_vars, sampler_vars>>

\* connect after accept() returned, lines 448-451.
Accepted(w) ==
    /\ ws[w] = "accepting"
    /\ connections' = Append(connections, w)
    /\ active_connections' = Len(connections) + 1
    /\ ws' = [ws EXCEPT ![w] = "open"]
    /\ UNCHANGED <<bc, hub_faults, hub_publishes, toggle_vars, sampler_vars>>

\* The environment: the client of a registered socket goes away.  From
\* now on a send to the socket raises, and receive_text, on which its
\* endpoint is suspended (line 577), is due to raise WebSocketDisconnect.
ClientGone(w) ==
    /\ ws[w] = "open"
    /\ hub_faults < MaxFaults
    /\ hub_faults' = hub_faults + 1
    /\ ws' = [ws EXCEPT ![w] = "gone"]
    /\ UNCHANGED <<connections, active_connections, bc, hub_publishes,
                   toggle_vars, sampler_vars>>

\* websocket_endpoint, lines 591-592: receive_text raises
\* WebSocketDisconnect and the endpoint unregisters its socket.
Disconnected(w) ==
    /\ ws[w] = "gone"
    /\ ws' = [ws EXCEPT ![w] = "closed"]
    /\ Removed({w})
    /\ bc' = Witnessed(bc, {w})
    /\ UNCHANGED <<hub_faults, hub_publishes, toggle_vars, sampler_vars>>

\* The for loop of broadcast, line 464, takes its next item: the iterator
\* compares its index with the length the list has now.  With an item
\* left, send_text is called on it (line 466) and the coroutine is
\* suspended; with none, the sockets of the disconnected list are
\* unregistered (lines 470-471) and broadcast returns.
BroadcastNext(p, b) ==
    IF b.pos < Len(connections)
    THEN /\ bc' = [bc EXCEPT ![p] =
                [b EXCEPT !.pos = @ + 1, !.cur = connections[b.pos + 1],
                          !.sent = Append(@, connections[b.pos + 1])]]
         /\ UNCHANGED <<connections, active_connections>>
    ELSE /\ Removed(Range(b.disc))
         /\ bc' = [Witnessed(bc, Range(b.disc)) EXCEPT ![p] =
                [b EXCEPT !.pcv = "idle", !.pos = 0, !.cur = NoSocket,
                          !.sent = <<>>, !.stayed = {}, !.done = TRUE,
                          !.missed = {w \in b.stayed : Count(b.sent, w) # 1}]]

\* broadcast is called, lines 459-466; with an empty list it returns at
\* once (lines 460-461).
BroadcastStart(p) ==
    /\ bc[p].pcv = "idle"
    /\ hub_publishes < MaxPublishes
    /\ hub_publishes' = hub_publishes + 1
    /\ IF connections = <<>>
       THEN UNCHANGED <<bc, connections, active_connections>>
       ELSE BroadcastNext(p, [NoBroadcast EXCEPT !.pcv = "sending",
                                                 !.stayed = Range(connections)])
    /\ UNCHANGED <<ws, hub_faults, toggle_vars, sampler_vars>>

\* send_text returns, or raises when the client is no longer there (lines
\* 467-468), and the loop goes on.
SendReturns(p) ==
    /\ bc[p].pcv = "sending"
    /\ BroadcastNext(p, IF ws[bc[p].cur] = "open" THEN bc[p]
                        ELSE [bc[p] EXCEPT !.disc = Append(@, bc[p].cur)])
    /\ UNCHANGED <<ws, hub_faults, hub_publishes, toggle_vars, sampler_vars>>

\* The hub with some observers registered, and nothing else going on.
InitHub == InitToggle /\ SamplerOf(QuietReadings) /\ \E n \in HubSizes : HubOf(n)

NextHub ==
    \/ \E w \in Sockets : Connect(w)
    \/ \E w \in Sockets : Accepted(w)
    \/ \E w \in Sockets : ClientGone(w)
    \/ \E w \in Sockets : Disconnected(w)
    \/ \E p \in Publishers : BroadcastStart(p)
    \/ \E p \in Publishers : SendReturns(p)

SpecHub == InitHub /\ [][NextHub]_vars

----------------------------------------------------------------------------
\* The ticks of background_monitor, lines 1151-1172: get_system_status
\* (lines 370-413), check_system_protection (lines 346-365) and the
\* broadcast of the periodic_update.

\* What one tick may read: each value at and just above the thresholds it
\* is compared with, or a read that raises.
CpuReadings == {60, 61, 75, 76, 80, 81, ReadFails}
TempReadings == {60, 61, 70, 71, ReadFails}
MemReadings == {70, 71, 80, 81, ReadFails}
DiskReadings == {50, ReadFails}
UptimeReadings == {3725, ReadFails}

Readings ==
    [cpu : CpuReadings, temp : TempReadings, mem : MemReadings,
     disk : DiskReadings, uptime : UptimeReadings]

\* The observer counts a tick may find: the cap, and one above it.
CrowdedHubs == {MAX_CONNECTIONS, MAX_CONNECTIONS + 1}

\* Lines 391-396.
Classify(cpu, temp, mem) ==
    IF cpu > 75 \/ temp > 70 \/ mem > 80 THEN "critical"
    ELSE IF cpu > 60 \/ temp > 60 \/ mem > 70 THEN "warning"
    ELSE "normal"

\* Lines 386-388: "{hours}h {minutes}m" of the seconds read, as the pair.
UptimeStr(seconds) ==
    <<seconds \div 3600, (seconds % 3600) \div 60>>

\* The except of line 408: the SystemStatus of lines 410-413.
FallbackStatus ==
    [cpu |-> 0, temp |-> 0, mem |-> 0, disk |-> 0, uptime |-> <<>>,
     state |-> "critical"]

\* get_system_status on the readings r.  The temperature probe has its
\* own try (lines 373-379) and reads as 0.0 when it raises; every other
\* read is under the outer try only, so when one of them raises the
\* function returns the SystemStatus of the except.
GetSystemStatus(r) ==
    LET cpu_temp == IF r.temp = ReadFails THEN 0 ELSE r.temp
    IN  IF ReadFails \in {r.cpu, r.mem, r.disk, r.uptime}
        THEN FallbackStatus
        ELSE [cpu |-> r.cpu, temp |-> cpu_temp, mem |-> r.mem,
              disk |-> r.disk, uptime |-> UptimeStr(r.uptime),
              state |-> Classify(r.cpu, cpu_temp, r.mem)]

\* background_monitor, line 1155: a tick begins; get_system_status makes
\* its reads and the tick takes the SystemStatus it returns.
Sample(r) ==
    /\ snapshot = NoSnapshot
    /\ readings' = r
    /\ snapshot' = GetSystemStatus(r)
    /\ UNCHANGED <<decision, ticks, active_connections, hub_vars, toggle_vars>>

\* background_monitor, line 1159: check_system_protection on that
\* SystemStatus, lines 348-365: should_protect is computed and acted on.
Decide ==
    /\ snapshot # NoSnapshot /\ decision = "none"
    /\ LET should_protect ==
               ShouldProtect(snapshot.cpu, snapshot.temp, snapshot.mem,
                             active_connections)
       IN  /\ decision' = IF should_protect THEN "protect" ELSE "quiet"
           /\ CheckSystemProtection(should_protect)
    /\ UNCHANGED <<readings, snapshot, ticks>>

\* background_monitor, line 1162: check_system_protection has returned and
\* the tick hands its periodic_update to broadcast, which suspends in the
\* send_text of each socket in turn.
Publish(p) ==
    /\ decision # "none" /\ pc[Monitor] = "idle"
    /\ hub_publishes = ticks
    /\ BroadcastStart(p)

\* background_monitor, line 1172: broadcast has returned, the tick is over
\* and the monitor sleeps until the next one.
NextTick ==
    /\ decision # "none"
    /\ hub_publishes = ticks + 1
    /\ \A p \in Publishers : bc[p].pcv = "idle"
    /\ ticks' = ticks + 1
    /\ readings' = QuietReadings
    /\ snapshot' = NoSnapshot
    /\ decision' = "none"
    /\ UNCHANGED <<active_connections, hub_vars, toggle_vars>>

\* The monitor's ticks alone, on every reading, with a crowded hub.
InitSampler ==
    /\ InitToggle
    /\ \E n \in CrowdedHubs : HubOf(n)
    /\ SamplerOf(QuietReadings)

NextSampler ==
    \/ \E r \in Readings : Sample(r)
    \/ Decide
    \/ \E p \in Publishers : Publish(p)
    \/ \E p \in Publishers : SendReturns(p)
    \/ NextTick

SpecSampler == InitSampler /\ [][NextSampler]_vars

----------------------------------------------------------------------------
\* The positions inside the body of smart_switch_camera or stop_all_cameras.
BodyPcs == {"switch_pause", "start_settle", "start_poll", "cleanup_sleep",
            "stop_wait"}

Executing(t) == pc[t] \in BodyPcs

\* No operation holds the lock, and one has run: the manager is as the last
\* operation left it.
OpOver == lock_holder = NoTask /\ hist.kind # "none"

LiveOf(kind) ==
    {p \in DOMAIN os_procs : os_procs[p].alive /\ os_procs[p].kind = kind}

\* C1: switch and stopAll calls, the monitor's included, never interleave.
\* While one is inside its body no other call enters its own, and a step
\* that changes camera_state, active_camera or the handle table is a step
\* of the one inside, and of no other task.
C1_OneOperationAtATime ==
    [][\A t \in Tasks :
          Executing(t) =>
              /\ \A u \in Tasks \ {t} : ~(pc'[u] \in BodyPcs)
              /\ <<camera_state, active_camera, processes>>' #
                     <<camera_state, active_camera, processes>>
                 => /\ pc'[t] # pc[t]
                    /\ \A u \in Tasks \ {t} : pc'[u] = pc[u]]_vars

\* A switch is inside its body while another caller and the monitor both
\* wait for the lock.
C1_Witness ==
    \E t \in Callers :
        /\ Executing(t) /\ lock_holder = t
        /\ pc[Monitor] = "wait_lock"
        /\ \E u \in Callers \ {t} : pc[u] = "wait_lock"

\* C2: at most one capture + encode pair is alive at any instant: never
\* two live capture processes, never two live encode processes.
C2_AtMostOnePairAlive ==
    /\ Cardinality(LiveOf("rpicam")) <= 1
    /\ Cardinality(LiveOf("ffmpeg")) <= 1

\* C3: the handle table holds a pair exactly when camera_state is Starting,
\* Running, Stopping or Switching; it is empty in Stopped and in Error.
C3_HandlesIffActiveState ==
    (DOMAIN processes # {}) <=>
        camera_state \in {"starting", "running", "stopping", "switching"}

\* C4: a switch issued while a source is Running whose teardown of that
\* source succeeds and whose start of the target then fails ends in Error
\* with no active source.
C4_FailedSwitchFromRunningClearsActive ==
    (/\ OpOver /\ hist.kind = "switch" /\ hist.cs = "running"
     /\ hist.td \in {"ok", "noop"} /\ hist.st = "fail")
        => (camera_state = "error" /\ active_camera = NoCamera)

\* The case of C4 does not arise: a switch that finds a source active finds
\* its pair in the handle table, its teardown fails (lines 164, 193) and it
\* returns at line 120, before _safe_start_camera.
C4_TeardownOfActiveSourceFails ==
    (hist.kind = "switch" /\ hist.ac # NoCamera)
        => (hist.pr /\ hist.td \in {"none", "fail"} /\ hist.st = "none")

\* C5: a switch whose teardown of the active source fails never starts the
\* target and ends in Error with no active source.
C5_TeardownFailureClearsActive ==
    (OpOver /\ hist.kind = "switch" /\ hist.td = "fail")
        => (hist.st = "none" /\ camera_state = "error"
            /\ active_camera = NoCamera)

\* C6: when a start that launched a process returns failure, every process
\* it launched has exited and the handle table is empty.
C6_FailedStartLeavesNoProcess ==
    (OpOver /\ hist.st = "fail" /\ hist.new # {})
        => (DOMAIN processes = {}
            /\ \A p \in hist.new : ~IsAlive(os_procs, p))

\* C7: a stop invoked with a non-empty handle table has emptied the table
\* when it returns, whether it returns success or failure.
C7_StopAlwaysClearsHandles ==
    (OpOver /\ hist.td \in {"ok", "fail"} /\ hist.st = "none")
        => DOMAIN processes = {}

\* C8: a stopAll whose teardown fails reports failure and leaves
\* camera_state as it found it.
C8_FailedStopAllKeepsState ==
    (OpOver /\ hist.kind = "stop" /\ hist.td = "fail")
        => (hist.res = "false" /\ camera_state = hist.cs)

\* C9: every stopAll leaves Stopped with no active source; a stopAll that
\* directly follows a stopAll returns success, and so does one that finds
\* nothing active.
C9_StopAllIdempotent ==
    (OpOver /\ hist.kind = "stop")
        => /\ camera_state = "stopped" /\ active_camera = NoCamera
           /\ hist.prev = "stop" => hist.res = "true"
           /\ (hist.ac = NoCamera /\ ~hist.pr) => hist.res = "true"

\* C10: a switch issued in Stopped with an empty handle table whose start
\* succeeds runs no teardown and ends Running with the target active,
\* progress 100 and last_switch_time set.
C10_FirstSwitchEndsRunning ==
    (OpOver /\ hist.kind = "switch" /\ hist.cs = "stopped" /\ ~hist.pr
     /\ hist.st = "ok")
        => /\ hist.td = "skipped"
           /\ hist.res = "true"
           /\ camera_state = "running"
           /\ active_camera = hist.cam
           /\ switch_progress = 100
           /\ last_switch_time # NoTime

\* Such a switch has ended, for camera 1, with the pair in the table.
C10_Witness ==
    /\ OpOver /\ hist.kind = "switch" /\ hist.cs = "stopped" /\ ~hist.pr
    /\ hist.st = "ok" /\ hist.cam = 1
    /\ DOMAIN processes = {"rpicam", "ffmpeg"}

\* C11: the monitor calls stop_all_cameras only on a tick that finds the
\* flag false, every such call ends by turning the flag true, and the flag
\* turns true in no other step: one call per false -> true transition.  A
\* tick whose CPU reading is above 80 computes should_protect, and a tick
\* that computes it with the flag false makes the call.
C11_StopOncePerProtectionEdge ==
    [][LET Invoke == \E v \in Verdicts : MonitorProtect(v)
           InFlight == pc[Monitor] # "idle"
           Edge == ~system_protected /\ system_protected'
       IN  /\ Invoke => (~system_protected /\ ~InFlight)
           /\ InFlight => ~system_protected
           /\ Edge => ((Invoke \/ InFlight) /\ pc'[Monitor] = "idle")
           /\ ((Invoke \/ InFlight) /\ pc'[Monitor] = "idle") => Edge
           /\ \A cpu \in CpuSamples, temp \in TempSamples, mem \in MemSamples :
                  LET v == ShouldProtect(cpu, temp, mem, active_connections)
                  IN  /\ cpu > 80 => v
                      /\ (v /\ ~system_protected /\ ~InFlight
                          /\ (MonitorProtect(v) \/ MonitorQuiet(v))) => Invoke
      ]_vars

\* The monitor's stop of a live pair has returned and protection is on.
C11_Witness ==
    /\ system_protected /\ switch_message = "protected"
    /\ hist.kind = "stop" /\ hist.pr /\ hist.td = "fail"
    /\ pc[Monitor] = "idle"

\* C12: a switch request that arrives while system_protected is true is
\* answered at once with a rejection; the step leaves the lock, its queue,
\* active_camera, camera_state, switch_progress, switch_message,
\* last_switch_time and the handle table as they were.
C12_ProtectedSwitchRejected ==
    [][\A t \in Callers :
          (system_protected /\ pc[t] = "idle" /\ op'[t] = "switch")
              => /\ pc'[t] = "done" /\ ret'[t] = "rejected"
                 /\ UNCHANGED <<lock_holder, lock_waiters, active_camera,
                                camera_state, switch_progress, switch_message,
                                last_switch_time, processes, os_procs>>
      ]_vars

\* A switch was rejected while a camera that was started before protection
\* set in is still in the table.
C12_Witness ==
    \E t \in Callers :
        /\ pc[t] = "done" /\ op[t] = "switch" /\ ret[t] = "rejected"
        /\ system_protected /\ DOMAIN processes # {}

\* C13: the lock is held only by a task that is inside the body of its
\* operation, so once the operation is over, however it ended, the lock is
\* free; and with the lock free the first caller queued on it is ready to
\* take it.
C13_LockReleasedOnEveryExit ==
    /\ \A t \in Tasks : lock_holder = t => Executing(t)
    /\ (lock_holder = NoTask /\ lock_waiters # <<>>)
           => (pc[Head(lock_waiters)] = "wait_lock" /\ LoopFree)

\* A switch ended in failure while another caller was queued on the lock.
C13_Witness ==
    /\ OpOver /\ hist.kind = "switch" /\ hist.res = "false"
    /\ lock_waiters # <<>>

\* C14: every operation that holds the lock gives it up in the end, even
\* if the process it signalled never exits.
C14_OperationsTerminate ==
    (lock_holder # NoTask) ~> (lock_holder = NoTask)

\* C15: a switch that took the lock is never cut short: while it runs the
\* state is Switching, Starting or Stopping, it ends in Running or Error,
\* and a switch that arrives meanwhile waits for the lock.
C15_SwitchRunsToRunningOrError ==
    /\ (OpOver /\ hist.kind = "switch")
           => camera_state \in {"running", "error"}
    /\ \A t \in Callers :
           (lock_holder = t /\ op[t] = "switch")
               => /\ camera_state \in {"switching", "starting", "stopping"}
                  /\ \A u \in Callers \ {t} :
                         (op[u] = "switch" /\ pc[u] \notin {"idle", "done"})
                             => pc[u] = "wait_lock"

\* A switch whose start failed has ended while a second switch, which
\* arrived while it ran, is still queued.
C15_Witness ==
    /\ OpOver /\ hist.kind = "switch" /\ hist.st = "fail"
    /\ \E u \in Callers : op[u] = "switch" /\ pc[u] = "wait_lock"

\* C16: a switch whose teardown or start raised returns False with
\* camera_state Error and the failure message in switch_message.
C16_ExceptionsBecomeError ==
    (OpOver /\ hist.kind = "switch" /\ (hist.td = "fail" \/ hist.st = "fail"))
        => /\ hist.res = "false"
           /\ camera_state = "error"
           /\ switch_message =
                  (IF hist.td = "fail" THEN "stop_failed" ELSE "start_failed")

\* The teardown of a switch raised (the TypeError of line 164).
C16_Witness ==
    /\ OpOver /\ hist.kind = "switch" /\ hist.td = "fail"
    /\ hist.cs = "running" /\ camera_state = "error"

\* C17: every switch has a status snapshot published when it enters
\* Switching and another when it ends, in Running or in Error.
C17_SwitchPublishesEntryAndEnd ==
    (OpOver /\ hist.kind = "switch")
        => /\ \E i \in 1..Len(hist.pub) : hist.pub[i] = "switching"
           /\ \E i \in 1..Len(hist.pub) : hist.pub[i] = camera_state

\* C18: a registration attempt that finds MAX_CONNECTIONS observers
\* registered is rejected (the socket is closed and never registered), and
\* the step changes neither the registered observers nor the count the
\* protection check reads.
C18_RegistrationAtCapRejected ==
    [][\A w \in Sockets :
          /\ (ws[w] = "new" /\ ws'[w] # "new"
              /\ Len(connections) = MAX_CONNECTIONS)
                 => /\ ws'[w] = "rejected"
                    /\ UNCHANGED <<connections, active_connections>>
          /\ ws[w] = "rejected"
                 => (ws'[w] = "rejected" /\ w \notin Range(connections'))
      ]_vars

\* A thirteenth client was turned away from a full hub.
C18_Witness ==
    /\ Len(connections) = MAX_CONNECTIONS
    /\ active_connections = MAX_CONNECTIONS
    /\ \E w \in Sockets : ws[w] = "rejected"

\* C19: a broadcast during which another task unregistered an observer
\* has sent the message exactly once to every observer that stayed
\* registered throughout.
C19_ConcurrentRemovalSkipsNoObserver ==
    \A p \in Publishers :
        (bc[p].done /\ bc[p].cut) => bc[p].missed = {}

\* C20: a broadcast in which a send failed removes, as it returns, exactly
\* the observers whose send failed, and has sent the message exactly once
\* to every other observer that stayed registered.
C20_SendFailureRemovesOnlyThatObserver ==
    [][\A p \in Publishers :
          (bc[p].pcv = "sending" /\ bc'[p].pcv = "idle"
           /\ bc'[p].disc # <<>>)
              => /\ Range(connections') =
                        Range(connections) \ Range(bc'[p].disc)
                 /\ bc'[p].missed = {}
      ]_vars

\* C21: the protection decision of a tick is the OR of four comparisons:
\* it is "protect" exactly when the CPU load of the tick's SystemStatus is
\* above 80, or its temperature above 70, or its memory use above 80, or
\* the observer count above 12; each comparison alone suffices.
C21_ProtectionIsAnyOfFour ==
    decision # "none" =>
        /\ snapshot.cpu > 80 => decision = "protect"
        /\ snapshot.temp > 70 => decision = "protect"
        /\ snapshot.mem > 80 => decision = "protect"
        /\ active_connections > 12 => decision = "protect"
        /\ (/\ snapshot.cpu <= 80 /\ snapshot.temp <= 70
            /\ snapshot.mem <= 80 /\ active_connections <= 12)
               => decision = "quiet"

\* A tick protects for the CPU load alone, everything else at its limit.
C21_Witness ==
    /\ decision = "protect"
    /\ snapshot.cpu = 81 /\ snapshot.temp = 70 /\ snapshot.mem = 80
    /\ active_connections = 12

\* C22: get_system_status never raises, and when one read fails only that
\* field of the SystemStatus is zero or "unknown" while every other field
\* holds what was read.
C22_OnlyTheFailedFieldReplaced ==
    snapshot # NoSnapshot =>
        /\ snapshot.state # "none"
        /\ snapshot.cpu = (IF readings.cpu = ReadFails THEN 0 ELSE readings.cpu)
        /\ snapshot.temp =
               (IF readings.temp = ReadFails THEN 0 ELSE readings.temp)
        /\ snapshot.mem = (IF readings.mem = ReadFails THEN 0 ELSE readings.mem)
        /\ snapshot.disk =
               (IF readings.disk = ReadFails THEN 0 ELSE readings.disk)
        /\ snapshot.uptime =
               (IF readings.uptime = ReadFails THEN <<>>
                ELSE <<readings.uptime \div 3600,
                       (readings.uptime % 3600) \div 60>>)

\* C23: the state of a SystemStatus is the worst tier over its metrics:
\* critical when the CPU load is above 75 or the temperature above 70 or
\* the memory use above 80, otherwise warning when one of them is above 60,
\* 60 and 70, otherwise normal.
C23_StateIsWorstTier ==
    snapshot # NoSnapshot =>
        LET crit == snapshot.cpu > 75 \/ snapshot.temp > 70 \/ snapshot.mem > 80
            warn == snapshot.cpu > 60 \/ snapshot.temp > 60 \/ snapshot.mem > 70
        IN  snapshot.state =
                (IF crit THEN "critical"
                 ELSE IF warn THEN "warning" ELSE "normal")

\* C24: Error is not terminal.  A switch that finds camera_state Error and
\* whose teardown and start succeed ends Running with its target active;
\* a stop_all_cameras that finds Error ends Stopped; and no operation is
\* turned away for the state being Error: the switch runs its teardown or
\* its start, and a request is rejected only under protection.
C24_ErrorIsNotTerminal ==
    /\ [](/\ (OpOver /\ hist.cs = "error" /\ hist.kind = "switch")
               => /\ hist.td = "fail" \/ hist.st \in {"ok", "fail"}
                  /\ (hist.td # "fail" /\ hist.st = "ok")
                         => /\ camera_state = "running"
                            /\ active_camera = hist.cam
                            /\ hist.res = "true"
          /\ (OpOver /\ hist.cs = "error" /\ hist.kind = "stop")
               => camera_state = "stopped")
    /\ [][\A t \in Callers :
             (camera_state = "error" /\ pc[t] = "idle" /\ pc'[t] # "idle")
                 => \/ system_protected /\ ret'[t] = "rejected"
                    \/ pc'[t] = "wait_lock"
                    \/ lock_holder' = t
                    \/ hist'.kind = op'[t] /\ hist'.cs = "error"
         ]_vars

\* A switch found Error, left by a start that failed, and ended Running.
C24_Witness ==
    /\ OpOver /\ hist.kind = "switch" /\ hist.cs = "error"
    /\ hist.st = "ok" /\ camera_state = "running"
    /\ active_camera = hist.cam

\* C25: get_status never waits for switch_lock: in every state, the ones
\* where a switch or stop_all_cameras holds the lock included, a status
\* request can be answered, and answering it changes nothing.
C25_StatusAnsweredInEveryState ==
    ENABLED GetStatus

\* C26: teardown strictly precedes start.  A switch issued while a source
\* is active, to that source or to another, launches a process of its
\* target only after its teardown has run and cleared the table, with no
\* process of the pair it found still alive.
C26_TeardownPrecedesStart ==
    (hist.kind = "switch" /\ hist.ac # NoCamera /\ hist.new # {})
        => /\ hist.td \in {"ok", "noop"}
           /\ \A p \in hist.old : ~IsAlive(os_procs, p)

\* A switch to another source was issued while a source was active with
\* its pair alive; its teardown has run and it is over, with no process of
\* the target launched.
C26_Witness ==
    /\ OpOver /\ hist.kind = "switch"
    /\ hist.ac # NoCamera /\ hist.cam # hist.ac
    /\ hist.td = "fail" /\ hist.new = {}
    /\ \E p \in hist.old : IsAlive(os_procs, p)

\* C27: in every stop of a live pair the encode process is the first to be
\* sent SIGTERM: while the stop waits on an encode process that is alive,
\* that process has the signal; and the capture process is sent nothing
\* by the stop as long as the encode process is alive.
C27_EncodeSignalledBeforeCapture ==
    /\ \A t \in Tasks :
           (pc[t] = "stop_wait" /\ IsAlive(os_procs, processes["ffmpeg"]))
               => os_procs[processes["ffmpeg"]].stop_sig = "term"
    /\ ("rpicam" \in DOMAIN processes
        /\ os_procs[processes["rpicam"]].stop_sig # "none")
           => ~IsAlive(os_procs, processes["ffmpeg"])

\* A stop of a live pair waits on the encode process, which has been sent
\* SIGTERM, while the capture process runs on unsignalled.
C27_Witness ==
    \E t \in Tasks :
        /\ pc[t] = "stop_wait"
        /\ IsAlive(os_procs, processes["ffmpeg"])
        /\ os_procs[processes["ffmpeg"]].stop_sig = "term"
        /\ IsAlive(os_procs, processes["rpicam"])
        /\ os_procs[processes["rpicam"]].stop_sig = "none"

\* C28: however registrations interleave, two of them in progress with 11
\* observers registered included, never more than 12 observers are
\* registered, in the list and in the count the protection check reads.
C28_NeverAboveTwelveObservers ==
    /\ Len(connections) <= 12
    /\ active_connections <= 12

\* C29: while system_protected is true no pipeline is started: no switch
\* launches a process, camera_state is not Running and no process of a
\* pipeline is alive, also when the switch passed the check of
\* system_protected before the flag turned true and then waited for the
\* lock.
C29_NoPipelineWhileProtected ==
    system_protected
        => /\ camera_state # "running"
           /\ LiveOf("rpicam") = {} /\ LiveOf("ffmpeg") = {}
           /\ hist.kind = "switch" => hist.new = {}

\* C30: the stop_all_cameras of a tick that activates protection waits
\* for a switch that is in flight and then runs: it never executes while
\* a caller holds the lock, and in the step that turns system_protected
\* true it has just ended, with camera_state Stopped, active_camera None
\* and no caller inside an operation.
C30_ProtectionEdgeFindsStopped ==
    /\ [](Executing(Monitor) => \A t \in Callers : ~Executing(t))
    /\ [][(~system_protected /\ system_protected')
             => /\ camera_state' = "stopped"
                /\ active_camera' = NoCamera
                /\ hist'.kind = "stop" /\ lock_holder' = NoTask
                /\ \A t \in Callers : ~Executing(t)'
         ]_vars

\* Protection has just been activated by a stop that found camera 0
\* Running after the switch it had queued behind, and that ran before a
\* second switch queued with it.
C30_Witness ==
    /\ system_protected /\ switch_message = "protected"
    /\ hist.kind = "stop" /\ hist.prev = "switch"
    /\ hist.cs = "running" /\ hist.ac = 0
    /\ camera_state = "stopped" /\ active_camera = NoCamera
    /\ pc[Monitor] = "idle" /\ lock_waiters # <<>>

\* C31: the step in which system_protected turns from true to false
\* changes that flag only: no operation is called or queued by it, no
\* process is launched or signalled, and camera_state, active_camera,
\* switch_progress and the handle table stay as they were.
C31_DeactivationChangesOnlyTheFlag ==
    [][(system_protected /\ ~system_protected')
          => UNCHANGED <<camera_state, active_camera, switch_progress,
                         switch_message, last_switch_time, processes,
                         os_procs, lock_holder, lock_waiters, pc, op, arg,
                         ret, issued, hist>>
      ]_vars

\* Protection was activated by a stop of a pair and has been deactivated:
\* the cameras are still Stopped with the handles in the table.
C31_Witness ==
    /\ ~system_protected /\ switch_message = "protected"
    /\ camera_state = "stopped" /\ active_camera = NoCamera
    /\ DOMAIN processes # {}
    /\ hist.kind = "stop" /\ hist.ac # NoCamera

\* C32: whenever camera_state is Running, active_camera is a camera,
\* switch_progress is 100, last_switch_time is set, and the handle table
\* holds a capture process under "rpicam" and an encode process under
\* "ffmpeg", the pair the switch to active_camera launched.
C32_RunningIsComplete ==
    camera_state = "running"
        => /\ active_camera \in Cameras
           /\ switch_progress = 100
           /\ last_switch_time # NoTime
           /\ DOMAIN processes = {"rpicam", "ffmpeg"}
           /\ os_procs[processes["rpicam"]].kind = "rpicam"
           /\ os_procs[processes["ffmpeg"]].kind = "ffmpeg"
           /\ hist.kind = "switch" /\ hist.cam = active_camera
           /\ hist.new = {processes["rpicam"], processes["ffmpeg"]}

\* Camera 1 is Running after a switch that followed another operation.
C32_Witness ==
    /\ camera_state = "running" /\ active_camera = 1
    /\ OpOver /\ hist.prev # "none"
    /\ switch_progress = 100

\* C33: get_stream_url(id) returns the path of camera id exactly when
\* active_camera = id and camera_state is Running, and None otherwise: for
\* every id while a switch holds the lock, a switch to the camera that is
\* active included, and for every id once a switch has returned False.
C33_StreamUrlOnlyWhenRunning ==
    /\ \A id \in StreamIds :
           /\ (active_camera = id /\ camera_state = "running")
                  => GetStreamUrl(id) = <<"stream", id, "index.m3u8">>
           /\ ~(active_camera = id /\ camera_state = "running")
                  => GetStreamUrl(id) = NoUrl
    /\ \A t \in Callers, id \in StreamIds :
           (lock_holder = t /\ op[t] = "switch") => GetStreamUrl(id) = NoUrl
    /\ (OpOver /\ hist.kind = "switch" /\ hist.res = "false")
           => \A id \in StreamIds : GetStreamUrl(id) = NoUrl

\* A switch to camera 0, which was Running and active, has returned False:
\* active_camera is still 0 and no URL is returned for it.
C33_Witness ==
    /\ OpOver /\ hist.kind = "switch" /\ hist.res = "false"
    /\ hist.cam = 0 /\ hist.ac = 0 /\ hist.cs = "running"
    /\ active_camera = 0 /\ GetStreamUrl(0) = NoUrl

\* C34: the toggle snapshot a tick sends in its periodic_update is the
\* state after that tick's check_system_protection: the tick that turns
\* system_protected true sends protected = true with camera_state Stopped
\* and no active camera.
C34_PushReflectsProtectionCheck ==
    [][(~system_protected /\ system_protected')
          => /\ PeriodicUpdate.system_protected
             /\ PeriodicUpdate.camera_state = "stopped"
             /\ PeriodicUpdate.active_camera = NoCamera
      ]_vars

====
